---- MODULE Spec2Model ----
(***************************************************************************)
(* Model of the EDITO STAC substring search                                *)
(* (src/A_general_scripts/6_stac_metadata_search.py) and of the item       *)
(* retrieval loop of the STAC tutorial                                     *)
(* (src/C_Troubleshooting/handling_invalid_STAC.py).                       *)
(*                                                                         *)
(* A Python str is a sequence of one-character strings, so that lower(),   *)
(* `in`, split(), strip(), re.escape() and re.search() are computed and    *)
(* not assumed.  A JSON value is a record                                  *)
(*   [tag, s, keys, items]                                                 *)
(* tag   : "null" | "bool" | "num" | "str" | "list" | "dict"               *)
(* s     : the characters of a str; for null/bool/num the text str() gives *)
(* keys  : the keys of a dict, in iteration order                          *)
(* items : the elements of a list, or the values of a dict (items[i] is    *)
(*         the value of keys[i])                                           *)
(***************************************************************************)
EXTENDS Integers, Sequences, FiniteSets, TLC

VARIABLES
    pc,                \* control position: of main, or of the function under check
    input,             \* arguments of a function checked on its own
    output,            \* its return value
    args,              \* main: the parsed command line (argparse Namespace)
    server,            \* the STAC API: what GET {base}/collections answers
    collection_terms,  \* main: the patterns of --collections
    all_collections,   \* main: the collections fetched
    selected,          \* main: the collections to scan
    collection_id,     \* _scan_collection_items: the collection scanned
    next_url,          \* _scan_collection_items: the URL to fetch next, or None
    page,              \* _scan_collection_items: pages fetched so far
    hits,              \* _scan_collection_items: matches counted so far
    matches,           \* _scan_collection_items: the Match records so far
    exchanges,         \* the STAC API: the item-page requests of the scan and
                       \* what each was answered, in order
    c_pos,             \* main: position in selected of `for c in selected`
    total_hits,        \* main: the hits summed over the collections scanned
    all_matches,       \* main: the Match records of the collections scanned
    results_file,      \* main: the results file, once written
    stdout,            \* main: what was printed (the lines that tell the outcome)
    exit_status        \* the exit status of the process, once main has ended

vars == <<pc, input, output, args, server, collection_terms, all_collections,
          selected, collection_id, next_url, page, hits, matches, exchanges,
          c_pos, total_hits, all_matches, results_file, stdout, exit_status>>

scanVars == <<collection_id, next_url, page, hits, matches, exchanges>>

mainVars == <<args, server, collection_terms, all_collections, selected>>

runVars == <<c_pos, total_hits, all_matches, results_file, stdout, exit_status>>

Unset == <<>>

\* main has not reached the scan of the collections, printed or ended
RunIdle ==
    /\ c_pos = 0
    /\ total_hits = 0
    /\ all_matches = Unset
    /\ results_file = Unset
    /\ stdout = <<>>
    /\ exit_status = Unset

\* main has not started
MainIdle ==
    /\ RunIdle
    /\ args = Unset
    /\ server = Unset
    /\ collection_terms = Unset
    /\ all_collections = Unset
    /\ selected = Unset

\* _scan_collection_items has not been called
ScanIdle ==
    /\ collection_id = Unset
    /\ next_url = Unset
    /\ page = 0
    /\ hits = 0
    /\ matches = Unset
    /\ exchanges = Unset

---------------------------------------------------------------------------
(* Python str *)

UpperChars ==
    <<"A","B","C","D","E","F","G","H","I","J","K","L","M",
      "N","O","P","Q","R","S","T","U","V","W","X","Y","Z">>

LowerChars ==
    <<"a","b","c","d","e","f","g","h","i","j","k","l","m",
      "n","o","p","q","r","s","t","u","v","w","x","y","z">>

lower_char(c) ==
    IF \E i \in DOMAIN UpperChars : UpperChars[i] = c
    THEN LowerChars[CHOOSE i \in DOMAIN UpperChars : UpperChars[i] = c]
    ELSE c

\* str.lower()
str_lower(s) == [i \in 1..Len(s) |-> lower_char(s[i])]

\* a in s
str_in(a, s) ==
    \E off \in 0..(Len(s) - Len(a)) : SubSeq(s, off + 1, off + Len(a)) = a

---------------------------------------------------------------------------
(* JSON values *)

JNull == [tag |-> "null", s |-> <<"N","o","n","e">>, keys |-> <<>>, items |-> <<>>]

JTrue == [tag |-> "bool", s |-> <<"T","r","u","e">>, keys |-> <<>>, items |-> <<>>]

JFalse == [tag |-> "bool", s |-> <<"F","a","l","s","e">>, keys |-> <<>>, items |-> <<>>]

JNum(digits) == [tag |-> "num", s |-> digits, keys |-> <<>>, items |-> <<>>]

JStr(chars) == [tag |-> "str", s |-> chars, keys |-> <<>>, items |-> <<>>]

JList(elems) == [tag |-> "list", s |-> <<>>, keys |-> <<>>, items |-> elems]

JDict(ks, vs) == [tag |-> "dict", s |-> <<>>, keys |-> ks, items |-> vs]

---------------------------------------------------------------------------
(* StringScanner *)

RECURSIVE _iter_strings(_)
RECURSIVE iter_strings_each(_)

\* the strings yielded by the elements of a sequence of values, in order
iter_strings_each(values) ==
    IF values = <<>> THEN <<>>
    ELSE _iter_strings(Head(values)) \o iter_strings_each(Tail(values))

\* faulty variant: the dict branch also yields the keys
iter_strings_with_keys(value) ==
    IF value.tag = "null" THEN <<>>
    ELSE IF value.tag = "str" THEN <<value.s>>
    ELSE IF value.tag = "dict" THEN value.keys \o iter_strings_each(value.items)
    ELSE IF value.tag = "list" THEN iter_strings_each(value.items)
    ELSE <<>>

_iter_strings(value) ==
    IF value.tag = "null" THEN <<>>
    ELSE IF value.tag = "str" THEN <<value.s>>
    ELSE IF value.tag = "dict" THEN iter_strings_each(value.items)
    ELSE IF value.tag = "list" THEN iter_strings_each(value.items)
    ELSE <<>>

_contains_term(value, term_lower) ==
    LET strs == _iter_strings(value)
    IN  \E i \in DOMAIN strs : str_in(term_lower, str_lower(strs[i]))

---------------------------------------------------------------------------
(* Inputs of the StringScanner check *)

MaxTermLen == 2

TermChars == {"a", "B", "k"}

Terms == UNION {[1..n -> TermChars] : n \in 0..MaxTermLen}

LeafValues ==
    {JNull, JTrue, JNum(<<"1">>), JStr(<<"x","A","b">>), JStr(<<"b","K">>)}

TreeKeys == {<<"k">>, <<"a","B">>}

\* lists and dicts of one or two children
Composites(first, second) ==
    {JList(<<>>), JDict(<<>>, <<>>)}
    \cup {JList(<<x>>) : x \in first}
    \cup {JList(<<x, y>>) : x \in first, y \in second}
    \cup {JDict(<<k>>, <<x>>) : k \in TreeKeys, x \in first}
    \cup {JDict(<<<<"k">>, <<"a","B">>>>, <<x, y>>) : x \in first, y \in second}

TreesDepth1 == LeafValues \cup Composites(LeafValues, LeafValues)

TreesDepth2 == TreesDepth1 \cup Composites(TreesDepth1, LeafValues)

Idle == [op |-> "none"]

InitContains ==
    /\ pc = "call"
    /\ input \in [value : TreesDepth2, term : Terms]
    /\ output = Idle
    /\ MainIdle
    /\ ScanIdle

\* term_lower = query.lower(); _contains_term(feature, term_lower)
CallContainsTerm ==
    /\ pc = "call"
    /\ pc' = "done"
    /\ output' = [op |-> "contains_term",
                  found |-> _contains_term(input.value, str_lower(input.term))]
    /\ UNCHANGED <<input, mainVars, scanVars, runVars>>

NextContains == CallContainsTerm

SpecContains == InitContains /\ [][NextContains]_vars

---------------------------------------------------------------------------
(* C1 *)

EqIgnoreCase(a, b) == lower_char(a) = lower_char(b)

\* t occurs in s as a substring, letter case ignored
ContainsIgnoreCase(s, t) ==
    \E off \in 0..(Len(s) - Len(t)) :
        \A i \in 1..Len(t) : EqIgnoreCase(s[off + i], t[i])

RECURSIVE HasMatchingLeaf(_, _)
\* some string leaf below v, reached through list elements and dict values
\* only, contains t
HasMatchingLeaf(v, t) ==
    \/ v.tag = "str" /\ ContainsIgnoreCase(v.s, t)
    \/ /\ v.tag \in {"list", "dict"}
       /\ \E i \in DOMAIN v.items : HasMatchingLeaf(v.items[i], t)

RECURSIVE KeyContains(_, _)
\* some dict key at any depth of v contains t
KeyContains(v, t) ==
    \/ \E i \in DOMAIN v.keys : ContainsIgnoreCase(v.keys[i], t)
    \/ \E i \in DOMAIN v.items : KeyContains(v.items[i], t)

\* C1: _contains_term(T, lower(t)) is true exactly when some string leaf of
\* T, reached through mapping values and sequence elements and never through
\* a mapping key, contains t as a case-insensitive substring; a term found
\* only in mapping keys gives false.
C1_ContainsTermIffLeaf ==
    pc = "done" =>
        /\ output.found = HasMatchingLeaf(input.value, input.term)
        /\ (KeyContains(input.value, input.term)
              /\ ~HasMatchingLeaf(input.value, input.term)) => ~output.found

\* a leaf two levels down matches only when case is ignored, and the scan
\* has found it
C1_Witness ==
    /\ pc = "done"
    /\ output.found
    /\ input.term = <<"a", "B">>
    /\ input.value.tag = "dict"
    /\ \E i \in DOMAIN input.value.items :
          /\ input.value.items[i].tag = "list"
          /\ \E j \in DOMAIN input.value.items[i].items :
                input.value.items[i].items[j] = JStr(<<"x","A","b">>)

---------------------------------------------------------------------------
(* Python built-ins used by the script *)

\* bool(value), as `x or default` and `if not x` read it
truthy(value) ==
    IF value.tag = "null" THEN FALSE
    ELSE IF value.tag = "bool" THEN value = JTrue
    ELSE IF value.tag = "num" THEN value.s # <<"0">>
    ELSE IF value.tag = "str" THEN value.s # <<>>
    ELSE value.items # <<>>

dict_has(d, key) == \E i \in DOMAIN d.keys : d.keys[i] = key

\* d.get(key, default)
dict_get_default(d, key, default) ==
    IF dict_has(d, key)
    THEN d.items[CHOOSE i \in DOMAIN d.keys : d.keys[i] = key]
    ELSE default

\* d.get(key)
dict_get(d, key) == dict_get_default(d, key, JNull)

RECURSIVE py_join(_, _)
\* sep.join(strs)
py_join(sep, strs) ==
    IF strs = <<>> THEN <<>>
    ELSE IF Len(strs) = 1 THEN strs[1]
    ELSE strs[1] \o sep \o py_join(sep, Tail(strs))

RECURSIVE py_repr(_)
\* repr(value); the strings of the model hold no quote and no backslash
py_repr(value) ==
    IF value.tag = "str" THEN <<"'">> \o value.s \o <<"'">>
    ELSE IF value.tag = "list"
    THEN <<"[">> \o py_join(<<",", " ">>,
                     [i \in DOMAIN value.items |-> py_repr(value.items[i])])
         \o <<"]">>
    ELSE IF value.tag = "dict"
    THEN <<"{">> \o py_join(<<",", " ">>,
                     [i \in DOMAIN value.items |->
                         <<"'">> \o value.keys[i] \o <<"'", ":", " ">>
                         \o py_repr(value.items[i])])
         \o <<"}">>
    ELSE value.s

\* str(value)
py_str(value) == IF value.tag = "str" THEN value.s ELSE py_repr(value)

RECURSIVE str_split(_, _)
\* s.split(sep), sep one character
str_split(s, sep) ==
    IF \E i \in DOMAIN s : s[i] = sep
    THEN LET i == CHOOSE i \in DOMAIN s :
                      s[i] = sep /\ \A j \in 1..(i - 1) : s[j] # sep
         IN  <<SubSeq(s, 1, i - 1)>> \o str_split(SubSeq(s, i + 1, Len(s)), sep)
    ELSE <<s>>

Whitespace == {" "}

RECURSIVE str_strip(_)
\* s.strip()
str_strip(s) ==
    IF s = <<>> THEN s
    ELSE IF Head(s) \in Whitespace THEN str_strip(Tail(s))
    ELSE IF s[Len(s)] \in Whitespace THEN str_strip(SubSeq(s, 1, Len(s) - 1))
    ELSE s

---------------------------------------------------------------------------
(* Python re, for the patterns the script builds.  A compiled pattern is    *)
(* [ok, alts]: ok is FALSE when re.compile raises re.error, alts are the    *)
(* alternatives of a|b|c, each a literal after its escapes are removed.     *)
(* The metacharacters known to the model are backslash, "|" and "(" ; the   *)
(* others reach re.compile only escaped, where they are literals.           *)

\* re._special_chars_map: what re.escape puts a backslash before
SpecialChars ==
    {"(", ")", "[", "]", "{", "}", "?", "*", "+", "-", "|", "^", "$", "\\",
     ".", "&", "~", "#", " "}

\* faulty variant: nothing is escaped
re_escape_unchanged(pattern) == pattern

RECURSIVE re_escape(_)
\* re.escape(pattern)
re_escape(pattern) ==
    IF pattern = <<>> THEN <<>>
    ELSE (IF Head(pattern) \in SpecialChars
          THEN <<"\\", Head(pattern)>>
          ELSE <<Head(pattern)>>) \o re_escape(Tail(pattern))

ReError == [ok |-> FALSE, alts |-> <<>>]

RECURSIVE re_parse(_, _, _)
\* the parse of re.compile: rest is what is left of the pattern, cur the
\* alternative being read, alts the alternatives read
re_parse(rest, cur, alts) ==
    IF rest = <<>> THEN [ok |-> TRUE, alts |-> Append(alts, cur)]
    ELSE IF Head(rest) = "\\"
    THEN IF Len(rest) = 1
         THEN ReError                       \* bad escape (end of pattern)
         ELSE re_parse(SubSeq(rest, 3, Len(rest)), Append(cur, rest[2]), alts)
    ELSE IF Head(rest) = "("
    THEN ReError                            \* missing ), unterminated subpattern
    ELSE IF Head(rest) = "|"
    THEN re_parse(Tail(rest), <<>>, Append(alts, cur))
    ELSE re_parse(Tail(rest), Append(cur, Head(rest)), alts)

\* re.compile(pattern, flags=re.IGNORECASE)
re_compile(pattern) == re_parse(pattern, <<>>, <<>>)

\* bool(rx.search(s)), rx compiled with re.IGNORECASE
re_search(rx, s) ==
    \E i \in DOMAIN rx.alts : str_in(str_lower(rx.alts[i]), str_lower(s))

\* the outcome of _compile_optional_regex: None, a compiled pattern, or a
\* re.error that leaves the function
_compile_optional_regex(pattern) ==
    IF pattern = <<>>
    THEN [raised |-> FALSE, none |-> TRUE, rx |-> ReError]
    ELSE IF re_compile(pattern).ok
    THEN [raised |-> FALSE, none |-> FALSE, rx |-> re_compile(pattern)]
    ELSE LET literal == re_compile(re_escape(pattern))
         IN  [raised |-> ~literal.ok, none |-> FALSE, rx |-> literal]

---------------------------------------------------------------------------
(* Inputs of the pattern compilation check *)

MaxPatternLen == 3

PatternChars == {"a", "B", "|", "("}

Patterns == UNION {[1..n -> PatternChars] : n \in 0..MaxPatternLen}

Blobs ==
    {<<>>, <<"A", "b">>, <<"x", "a", "(", "b">>, <<"b", "|", "a">>,
     <<"x", "A", "|", "(", "B">>, <<"\\", "(", "a">>}

InitCompile ==
    /\ pc = "call"
    /\ input \in [pattern : Patterns, blob : Blobs]
    /\ output = Idle
    /\ MainIdle
    /\ ScanIdle

\* rx = _compile_optional_regex(term), then rx.search(blob)
CallCompile ==
    /\ pc = "call"
    /\ pc' = "done"
    /\ LET r == _compile_optional_regex(input.pattern)
       IN  output' = [op |-> "compile_optional_regex",
                      raised |-> r.raised,
                      none |-> r.none,
                      found |-> IF r.raised \/ r.none THEN FALSE
                                ELSE re_search(r.rx, input.blob)]
    /\ UNCHANGED <<input, mainVars, scanVars, runVars>>

NextCompile == CallCompile

SpecCompile == InitCompile /\ [][NextCompile]_vars

---------------------------------------------------------------------------
(* C8 *)

\* re.compile accepts the pattern: of the pattern characters of the model
\* only an opening parenthesis, never closed, makes a pattern invalid
ValidRegex(pattern) == \A i \in DOMAIN pattern : pattern[i] # "("

---------------------------------------------------------------------------
(* CollectionFilter *)

k_id == <<"i", "d">>

k_title == <<"t", "i", "t", "l", "e">>

k_description == <<"d", "e", "s", "c", "r", "i", "p", "t", "i", "o", "n">>

k_keywords == <<"k", "e", "y", "w", "o", "r", "d", "s">>

k_summaries == <<"s", "u", "m", "m", "a", "r", "i", "e", "s">>

k_collections == <<"c", "o", "l", "l", "e", "c", "t", "i", "o", "n", "s">>

\* the candidates of _collection_matches: id, title, description when they
\* are non-empty strings, the joined keywords, str(summaries)
collection_candidates(collection) ==
    LET field(key) ==
            LET v == dict_get(collection, key)
            IN  IF v.tag = "str" /\ v.s # <<>> THEN <<v.s>> ELSE <<>>
        keywords == dict_get(collection, k_keywords)
        summaries == dict_get(collection, k_summaries)
        notNone(x) == x.tag # "null"
    IN  field(k_id) \o field(k_title) \o field(k_description)
        \o (IF keywords.tag = "list"
            THEN LET kept == SelectSeq(keywords.items, notNone)
                 IN  <<py_join(<<" ">>, [i \in DOMAIN kept |-> py_str(kept[i])])>>
            ELSE <<>>)
        \o (IF summaries.tag # "null" THEN <<py_str(summaries)>> ELSE <<>>)

_collection_matches(collection, rx) ==
    re_search(rx, py_join(<<" ">>, collection_candidates(collection)))

\* _get_collections, the request answered: the dict entries of
\* payload["collections"]
_get_collections(payload) ==
    LET got == dict_get(payload, k_collections)
        cols == IF truthy(got) THEN got ELSE JList(<<>>)
        isDict(c) == c.tag = "dict"
    IN  IF cols.tag # "list" THEN <<>> ELSE SelectSeq(cols.items, isDict)

\* [c.strip() for c in args.collections.split(",") if c.strip()]
parse_collection_terms(collections) ==
    LET parts == str_split(collections, ",")
        stripped == [i \in DOMAIN parts |-> str_strip(parts[i])]
        nonEmpty(c) == c # <<>>
    IN  SelectSeq(stripped, nonEmpty)

\* cid = str(coll.get("id", "")).strip()
collection_cid(coll) == str_strip(py_str(dict_get_default(coll, k_id, JStr(<<>>))))

\* faulty variant of select_step: the `cid in seen` test is missing
select_step_no_seen(acc, coll, rx) ==
    LET cid == collection_cid(coll)
    IN  IF cid = <<>> THEN acc
        ELSE IF _collection_matches(coll, rx)
        THEN [acc EXCEPT !.selected = Append(@, coll), !.seen = @ \cup {cid}]
        ELSE acc

\* one pass of the inner loop of the selection: acc is [selected, seen, raised]
select_step(acc, coll, rx) ==
    LET cid == collection_cid(coll)
    IN  IF cid = <<>> \/ cid \in acc.seen THEN acc
        ELSE IF _collection_matches(coll, rx)
        THEN [acc EXCEPT !.selected = Append(@, coll), !.seen = @ \cup {cid}]
        ELSE acc

RECURSIVE select_collections_for(_, _, _)
\* for coll in all_collections: ...
select_collections_for(acc, colls, rx) ==
    IF colls = <<>> THEN acc
    ELSE select_collections_for(select_step(acc, Head(colls), rx), Tail(colls), rx)

RECURSIVE select_terms(_, _, _)
\* for term in collection_terms: ...
select_terms(acc, terms, colls) ==
    IF terms = <<>> \/ acc.raised THEN acc
    ELSE LET r == _compile_optional_regex(Head(terms))
         IN  IF r.raised THEN [acc EXCEPT !.raised = TRUE]
             ELSE IF r.none THEN select_terms(acc, Tail(terms), colls)
             ELSE select_terms(select_collections_for(acc, colls, r.rx),
                               Tail(terms), colls)

\* faulty variant of select_all: all collections only when --all-collections
\* is given and there is no pattern
select_all_needs_both(all_flag, terms) == all_flag /\ terms = <<>>

\* args.all_collections or not collection_terms
select_all(all_flag, terms) == all_flag \/ terms = <<>>

\* the selection of main: [selected, seen, raised]
select(all_flag, terms, colls) ==
    IF select_all(all_flag, terms)
    THEN [selected |-> colls, seen |-> {}, raised |-> FALSE]
    ELSE select_terms([selected |-> <<>>, seen |-> {}, raised |-> FALSE],
                      terms, colls)

---------------------------------------------------------------------------
(* main, up to the selection *)

MaxCollections == 3

s_Biology == <<"B", "i", "o", "l", "o", "g", "y">>

s_Physics == <<"P", "h", "y", "s", "i", "c", "s">>

\* entries of the "collections" list the API may answer
CatalogEntries ==
    {JDict(<<k_id, k_title>>, <<JStr(<<"x">>), JStr(s_Biology)>>),
     JDict(<<k_id, k_title>>, <<JStr(<<"y">>), JStr(s_Physics)>>),
     JDict(<<k_id, k_keywords>>,
           <<JStr(<<"k">>), JList(<<JStr(<<"a", "(">>), JNull, JNum(<<"1">>)>>)>>),
     JDict(<<k_id, k_description, k_summaries>>,
           <<JStr(<<"s">>), JStr(<<>>),
             JDict(<<<<"p">>>>, <<JList(<<JStr(<<"b", "i", "o">>)>>)>>)>>),
     JDict(<<k_title>>, <<JStr(s_Biology)>>),
     JDict(<<k_id, k_title>>, <<JStr(<<"x">>), JStr(s_Physics)>>),
     JStr(<<"b", "i", "o">>)}

Catalogs == UNION {[1..n -> CatalogEntries] : n \in 0..MaxCollections}

\* values of --collections
CollectionsArgs ==
    {<<>>,
     <<",">>,
     <<" ", ",", " ", ",">>,
     <<"b", "i", "o">>,
     <<" ", "b", "i", "o", " ", ",", "B", "I", "O">>,
     <<"p", "h", "y", ",", "b", "i", "o">>,
     <<"p", "h", "y", "|", "b", "i", "o">>,
     <<"a", "(">>,
     <<"(", ",", ",", "x", "|", "k">>,
     <<"'", "p", "'">>}

InitSelect ==
    /\ pc = "start"
    /\ input = Idle
    /\ output = Idle
    /\ args \in [collections : CollectionsArgs, all_collections : BOOLEAN]
    /\ \/ \E cat \in Catalogs :
             server = [status |-> "ok",
                       payload |-> JDict(<<k_collections>>, <<JList(cat)>>)]
       \/ server = [status |-> "error", payload |-> JNull]
    /\ collection_terms = Unset
    /\ all_collections = Unset
    /\ selected = Unset
    /\ ScanIdle
    /\ RunIdle

\* args = parser.parse_args(argv); collection_terms = [...]
ParseArgs ==
    /\ pc = "start"
    /\ pc' = "parsed"
    /\ collection_terms' = parse_collection_terms(args.collections)
    /\ UNCHANGED <<input, output, args, server, all_collections, selected, scanVars,
                 runVars>>

\* all_collections = _get_collections(session, args.base); raise_for_status
\* ends main on a failure status
GetCollections ==
    /\ pc = "parsed"
    /\ IF server.status = "ok"
       THEN /\ pc' = "listed"
            /\ all_collections' = _get_collections(server.payload)
       ELSE /\ pc' = "raised"
            /\ UNCHANGED all_collections
    /\ UNCHANGED <<input, output, args, server, collection_terms, selected, scanVars,
                 runVars>>

\* the selection of the collections to scan
SelectCollections ==
    /\ pc = "listed"
    /\ LET r == select(args.all_collections, collection_terms, all_collections)
       IN  IF r.raised
           THEN pc' = "raised" /\ UNCHANGED selected
           ELSE pc' = "selected" /\ selected' = r.selected
    /\ UNCHANGED <<input, output, args, server, collection_terms, all_collections, scanVars,
                 runVars>>

NextSelect == ParseArgs \/ GetCollections \/ SelectCollections

SpecSelect == InitSelect /\ [][NextSelect]_vars

---------------------------------------------------------------------------
(* C6 *)

\* the pattern term, compiled as main compiles it, matches the blob of c
MatchedBy(c, term) ==
    _collection_matches(c, _compile_optional_regex(term).rx)

\* every collection has a non-empty id and no two share one (the data model
\* of a catalog)
ValidCatalog(colls) ==
    /\ \A i \in DOMAIN colls : collection_cid(colls[i]) # <<>>
    /\ \A i, j \in DOMAIN colls :
          i # j => collection_cid(colls[i]) # collection_cid(colls[j])

FirstTerm(c) ==
    CHOOSE n \in DOMAIN collection_terms :
        /\ MatchedBy(c, collection_terms[n])
        /\ \A m \in 1..(n - 1) : ~MatchedBy(c, collection_terms[m])

Position(c) == CHOOSE i \in DOMAIN all_collections : all_collections[i] = c

---------------------------------------------------------------------------
(* C7 *)

\* the --collections value holds nothing but commas and blanks
BlankOnly(collections) ==
    \A i \in DOMAIN collections : collections[i] \in {",", " "}

\* the entries of the fetched "collections" list that are objects, in order
FetchedCollections ==
    LET isDict(c) == c.tag = "dict"
    IN  SelectSeq(server.payload.items[1].items, isDict)

\* C7: with no pattern (no --collections value, or only blank and comma
\* entries), or with --all-collections whatever the patterns, the selection
\* is the full fetched collection list, in the order fetched.
C7_SelectAll ==
    (pc = "selected" /\ (BlankOnly(args.collections) \/ args.all_collections)) =>
        /\ selected = all_collections
        /\ selected = FetchedCollections

\* --all-collections together with a pattern that matches only one of the
\* fetched collections: all are selected
C7_Witness ==
    /\ pc = "selected"
    /\ args.all_collections
    /\ collection_terms = <<<<"a", "(">>>>
    /\ Len(selected) = 3
    /\ \E i \in DOMAIN selected : ~MatchedBy(selected[i], collection_terms[1])
    /\ \E i \in DOMAIN selected : MatchedBy(selected[i], collection_terms[1])

---------------------------------------------------------------------------
(* AssetMatcher *)

k_assets == <<"a", "s", "s", "e", "t", "s">>

k_href == <<"h", "r", "e", "f">>

k_type == <<"t", "y", "p", "e">>

\* term_rx = re.compile(re.escape(query), flags=re.IGNORECASE)
compile_term_rx(query) == re_compile(re_escape(query))

\* term_rx.search(x) for a value that may be no str
search_if_str(term_rx, x) == x.tag = "str" /\ re_search(term_rx, x.s)

\* faulty variant of asset_matches: the title is not looked at
asset_matches_no_title(key, asset, term_rx) ==
    \/ re_search(term_rx, key)
    \/ search_if_str(term_rx, dict_get(asset, k_href))

\* the condition of _matching_assets on one entry; a key is always a str
asset_matches(key, asset, term_rx) ==
    \/ re_search(term_rx, key)
    \/ search_if_str(term_rx, dict_get(asset, k_href))
    \/ search_if_str(term_rx, dict_get(asset, k_title))

RECURSIVE matching_assets_from(_, _, _)
\* for key, asset in assets.items(), from entry i on
matching_assets_from(assets, i, term_rx) ==
    IF i > Len(assets.items) THEN <<>>
    ELSE LET key == assets.keys[i]
             asset == assets.items[i]
             rest == matching_assets_from(assets, i + 1, term_rx)
         IN  IF asset.tag # "dict" THEN rest
             ELSE IF asset_matches(key, asset, term_rx)
             THEN <<[key |-> key,
                     type |-> dict_get(asset, k_type),
                     href |-> dict_get(asset, k_href)]>> \o rest
             ELSE rest

_matching_assets(feature, term_rx) ==
    LET got == dict_get(feature, k_assets)
        assets == IF truthy(got) THEN got ELSE JDict(<<>>, <<>>)
    IN  IF assets.tag # "dict" THEN <<>>
        ELSE matching_assets_from(assets, 1, term_rx)

---------------------------------------------------------------------------
(* Inputs of the AssetMatcher check *)

MaxAssets == 2

s_foo == <<"f", "o", "o">>

s_bar == <<"b", "a", "r">>

s_thumb == <<"t", "h", "u", "m", "b">>

\* {"thumb": {"href": "http://x/foo.png", "title": "Thumbnail"}}
ThumbAssets ==
    JDict(<<s_thumb>>,
          <<JDict(<<k_href, k_title>>,
                  <<JStr(<<"h", "t", "t", "p", ":", "/", "/", "x", "/",
                           "f", "o", "o", ".", "p", "n", "g">>),
                    JStr(<<"T", "h", "u", "m", "b", "n", "a", "i", "l">>)>>)>>)

AssetQueries == {s_foo, s_bar, <<"F", "O">>, <<"o", ".", "p">>, <<"(", "t">>}

AssetKeys == {<<"F", "o", "o", "d">>, <<"d">>, <<"(", "T", ")">>}

AssetEntries ==
    {JDict(<<k_href, k_title>>, <<JStr(<<"x", "/", "f", "O", ".", "p">>), JStr(<<"T">>)>>),
     JDict(<<k_href, k_title>>, <<JNum(<<"7">>), JStr(s_foo)>>),
     JDict(<<k_type, k_href, k_title>>, <<JStr(s_foo), JStr(<<"o", "x", "p">>), JNull>>),
     JDict(<<k_title>>, <<JList(<<JStr(s_foo)>>)>>),
     JStr(s_foo),
     JList(<<JStr(s_foo)>>)}

\* asset mappings of at most MaxAssets entries, the keys distinct
AssetDicts ==
    {JDict(ks, vs) : ks \in {k \in UNION {[1..n -> AssetKeys] : n \in 0..MaxAssets} :
                                \A i, j \in DOMAIN k : i # j => k[i] # k[j]},
                     vs \in UNION {[1..n -> AssetEntries] : n \in 0..MaxAssets}}

AssetFeatures ==
    {JDict(<<k_id>>, <<JStr(s_foo)>>)}
    \cup {JDict(<<k_id, k_assets>>, <<JStr(s_foo), a>>) :
            a \in {d \in AssetDicts : Len(d.keys) = Len(d.items)}
                  \cup {ThumbAssets, JNull, JStr(s_foo),
                        JList(<<JDict(<<k_href>>, <<JStr(s_foo)>>)>>)}}

InitAssets ==
    /\ pc = "call"
    /\ input \in [feature : AssetFeatures, query : AssetQueries]
    /\ output = Idle
    /\ MainIdle
    /\ ScanIdle

\* matching_assets=_matching_assets(feature, term_rx)
CallMatchingAssets ==
    /\ pc = "call"
    /\ pc' = "done"
    /\ output' = [op |-> "matching_assets",
                  assets |-> _matching_assets(input.feature,
                                              compile_term_rx(input.query))]
    /\ UNCHANGED <<input, mainVars, scanVars, runVars>>

NextAssets == CallMatchingAssets

SpecAssets == InitAssets /\ [][NextAssets]_vars

---------------------------------------------------------------------------
(* C9 *)

\* x is a string that contains q, case ignored
StrContains(x, q) == x.tag = "str" /\ ContainsIgnoreCase(x.s, q)

\* entry i of the mapping is a mapping whose key, href or title contains q
Qualifies(assets, i, q) ==
    /\ assets.items[i].tag = "dict"
    /\ \/ ContainsIgnoreCase(assets.keys[i], q)
       \/ \E k \in DOMAIN assets.items[i].keys :
             /\ assets.items[i].keys[k] \in {k_href, k_title}
             /\ StrContains(assets.items[i].items[k], q)

\* the n-th entry of the mapping, in its order, that qualifies
NthQualifying(assets, n, q) ==
    CHOOSE i \in DOMAIN assets.items :
        /\ Qualifies(assets, i, q)
        /\ Cardinality({j \in 1..(i - 1) : Qualifies(assets, j, q)}) = n - 1

AssetsOf(feature) == dict_get(feature, k_assets)

\* C9: for a feature whose assets field is a mapping, _matching_assets
\* returns, in the mapping's order, exactly the entries that are mappings
\* and whose key, href or title is a string containing the query, case
\* ignored and the query taken literally; other entries are skipped and a
\* href or title that is no string does not match.  For the thumb example
\* query foo returns the thumb entry and query bar nothing.
C9_MatchingAssets ==
    (pc = "done" /\ AssetsOf(input.feature).tag = "dict") =>
        LET assets == AssetsOf(input.feature)
            q == input.query
            out == output.assets
        IN  /\ Len(out) = Cardinality({i \in DOMAIN assets.items : Qualifies(assets, i, q)})
            /\ \A n \in DOMAIN out :
                  LET i == NthQualifying(assets, n, q)
                  IN  /\ out[n].key = assets.keys[i]
                      /\ out[n].href = dict_get(assets.items[i], k_href)
                      /\ out[n].type = dict_get(assets.items[i], k_type)
            /\ (assets = ThumbAssets /\ q = s_foo) =>
                  (Len(out) = 1 /\ out[1].key = s_thumb)
            /\ (assets = ThumbAssets /\ q = s_bar) => out = <<>>

\* of two entries the first is no mapping and is skipped, the second matches
\* by its title alone, its href being a number
C9_Witness ==
    /\ pc = "done"
    /\ input.query = <<"F", "O">>
    /\ AssetsOf(input.feature).tag = "dict"
    /\ Len(AssetsOf(input.feature).items) = 2
    /\ AssetsOf(input.feature).items[1] = JStr(s_foo)
    /\ AssetsOf(input.feature).keys[2] = <<"d">>
    /\ Len(output.assets) = 1
    /\ output.assets[1].key = <<"d">>
    /\ output.assets[1].href = JNum(<<"7">>)

---------------------------------------------------------------------------
(* PaginatedScanner *)

k_features == <<"f", "e", "a", "t", "u", "r", "e", "s">>

k_links == <<"l", "i", "n", "k", "s">>

k_rel == <<"r", "e", "l">>

k_properties == <<"p", "r", "o", "p", "e", "r", "t", "i", "e", "s">>

k_productIdentifier == <<"p", "r", "o", "d", "u", "c", "t", "I", "d", "e", "n", "t", "i", "f", "i", "e", "r">>

k_collection == <<"c", "o", "l", "l", "e", "c", "t", "i", "o", "n">>

k_datetime == <<"d", "a", "t", "e", "t", "i", "m", "e">>

k_start_datetime == <<"s", "t", "a", "r", "t", "_", "d", "a", "t", "e", "t", "i", "m", "e">>

s_next == <<"n", "e", "x", "t">>

DEFAULT_BASE ==
    <<"h","t","t","p","s",":","/","/","a","p","i",".","d","i","v","e",".","e",
      "d","i","t","o",".","e","u","/","d","a","t","a">>

\* the fixed part of the viewer link
ViewerPrefix ==
    <<"h","t","t","p","s",":","/","/","v","i","e","w","e","r",".","d","i","v",
      "e",".","e","d","i","t","o",".","e","u","/","f","e","a","t","u","r","e",
      "/","h","t","t","p","s",":","~","2","F","~","2","F","a","p","i",".","d",
      "i","v","e",".","e","d","i","t","o",".","e","u","~","2","F","d","a","t",
      "a","~","2","F","c","o","l","l","e","c","t","i","o","n","s","~","2",
      "F">>

DigitChars == <<"0", "1", "2", "3", "4", "5", "6", "7", "8", "9">>

RECURSIVE int_str(_)
\* str(n) in an f-string, n >= 0
int_str(n) ==
    IF n < 10 THEN <<DigitChars[n + 1]>>
    ELSE int_str(n \div 10) \o <<DigitChars[(n % 10) + 1]>>

\* f"{base}/collections/{collection_id}/items?limit={limit_per_page}"
listing_url(base, cid, limit_per_page) ==
    base \o <<"/">> \o k_collections \o <<"/">> \o cid
    \o <<"/", "i", "t", "e", "m", "s", "?", "l", "i", "m", "i", "t", "=">>
    \o int_str(limit_per_page)

\* f"{base}/collections/{item_collection}/items/{item_id}"
api_item_url(base, item_collection, item_id) ==
    base \o <<"/">> \o k_collections \o <<"/">> \o item_collection
    \o <<"/", "i", "t", "e", "m", "s", "/">> \o item_id

_viewer_url(cid, item_id) ==
    ViewerPrefix \o cid \o <<"~", "2", "F", "i", "t", "e", "m", "s", "~", "2", "F">>
    \o item_id

RECURSIVE last_next_href(_)
\* faulty variant of first_next_href: a later next link replaces an earlier
last_next_href(links) ==
    IF links = <<>> THEN JNull
    ELSE LET link == links[Len(links)]
         IN  IF link.tag # "dict" THEN last_next_href(SubSeq(links, 1, Len(links) - 1))
             ELSE IF /\ dict_get(link, k_rel) = JStr(s_next)
                     /\ dict_get(link, k_href).tag = "str"
             THEN dict_get(link, k_href)
             ELSE last_next_href(SubSeq(links, 1, Len(links) - 1))

RECURSIVE first_next_href(_)
\* the loop of _get_next_link over the links left
first_next_href(links) ==
    IF links = <<>> THEN JNull
    ELSE LET link == Head(links)
         IN  IF link.tag # "dict" THEN first_next_href(Tail(links))
             ELSE IF /\ dict_get(link, k_rel) = JStr(s_next)
                     /\ dict_get(link, k_href).tag = "str"
             THEN dict_get(link, k_href)
             ELSE first_next_href(Tail(links))

\* the href returned, a str, or None
_get_next_link(feature_collection) ==
    LET got == dict_get(feature_collection, k_links)
        links == IF truthy(got) THEN got ELSE JList(<<>>)
    IN  IF links.tag # "list" THEN JNull ELSE first_next_href(links.items)

\* a str, or None
_extract_datetime(feature) ==
    LET got == dict_get(feature, k_properties)
        props == IF truthy(got) THEN got ELSE JDict(<<>>, <<>>)
        dt == dict_get(props, k_datetime)
        start == dict_get(props, k_start_datetime)
    IN  IF props.tag # "dict" THEN JNull
        ELSE IF dt.tag = "str" /\ dt.s # <<>> THEN dt
        ELSE IF start.tag = "str" /\ start.s # <<>> THEN start
        ELSE JNull

NoMatch == [item_id |-> <<>>]

\* faulty variant of item_collection_of: the feature's own field is taken as
\* it is, None or empty included
item_collection_own_only(own, cid) == py_str(own)

\* item_collection = str(feature.get("collection") or collection_id)
item_collection_of(own, cid) == IF truthy(own) THEN py_str(own) ELSE cid

\* the body of `for feature in features`: the feature is skipped, appended to
\* page_matches as a Match, or an AttributeError leaves the scan
\* (feature.get("properties", {}) is no dict and has no .get)
scan_feature(feature, base, cid, term_lower, term_rx) ==
    IF feature.tag # "dict" THEN [kind |-> "skip", match |-> NoMatch]
    ELSE IF ~_contains_term(feature, term_lower)
    THEN [kind |-> "skip", match |-> NoMatch]
    ELSE LET item_id == py_str(dict_get_default(feature, k_id, JStr(<<>>)))
             props == dict_get_default(feature, k_properties, JDict(<<>>, <<>>))
         IN  IF props.tag # "dict" THEN [kind |-> "raise", match |-> NoMatch]
             ELSE LET product_identifier ==
                          py_str(dict_get_default(props, k_productIdentifier, JStr(<<>>)))
                      item_title ==
                          py_str(dict_get_default(props, k_title, JStr(<<>>)))
                      own == dict_get(feature, k_collection)
                      item_collection == item_collection_of(own, cid)
                  IN  IF item_id = <<>> \/ product_identifier = <<>> \/ item_title = <<>>
                      THEN [kind |-> "skip", match |-> NoMatch]
                      ELSE [kind |-> "match",
                            match |->
                              [item_id |-> item_id,
                               product_identifier |-> product_identifier,
                               item_title |-> item_title,
                               collection |-> item_collection,
                               datetime |-> _extract_datetime(feature),
                               api_item_url |-> api_item_url(base, item_collection, item_id),
                               viewer_url |-> _viewer_url(item_collection, item_id),
                               matching_assets |-> _matching_assets(feature, term_rx)]]

RECURSIVE scan_features(_, _, _, _, _)
\* `for feature in features` over the features left:
\* [raised, page_matches]
scan_features(features, base, cid, term_lower, term_rx) ==
    IF features = <<>> THEN [raised |-> FALSE, page_matches |-> <<>>]
    ELSE LET r == scan_feature(Head(features), base, cid, term_lower, term_rx)
         IN  IF r.kind = "raise" THEN [raised |-> TRUE, page_matches |-> <<>>]
             ELSE LET rest == scan_features(Tail(features), base, cid,
                                            term_lower, term_rx)
                  IN  IF rest.raised THEN rest
                      ELSE IF r.kind = "match"
                      THEN [rest EXCEPT !.page_matches = <<r.match>> \o @]
                      ELSE rest

\* features = fc.get("features") or []; a value that is no list reads as []
page_features(fc) ==
    LET got == dict_get(fc, k_features)
        features == IF truthy(got) THEN got ELSE JList(<<>>)
    IN  IF features.tag # "list" THEN <<>> ELSE features.items

\* the matches of one page: [raised, page_matches]
scan_page(fc, base, cid, query) ==
    scan_features(page_features(fc), base, cid, str_lower(query),
                  compile_term_rx(query))

\* faulty variant of loop_continues: max_pages = 0 reads as "no ceiling"
loop_continues_zero_unlimited(url, pages, max_pages) ==
    truthy(url) /\ (max_pages = 0 \/ pages < max_pages)

\* faulty variant of loop_continues: one page too many
loop_continues_off_by_one(url, pages, max_pages) ==
    truthy(url) /\ pages <= max_pages

\* while next_url and page < max_pages
loop_continues(url, pages, max_pages) == truthy(url) /\ pages < max_pages

\* faulty variant of breaks_after_page: the scan goes on after a page of matches
breaks_after_page_never(page_matches, stop_on_first_hit) == FALSE

\* if page_matches: ... if stop_on_first_hit: break
breaks_after_page(page_matches, stop_on_first_hit) ==
    page_matches # <<>> /\ stop_on_first_hit

---------------------------------------------------------------------------
(* The item pages the API may answer *)

MaxPagesArg == 2

DefaultLimitPerPage == 200

\* no run is followed beyond this many pages; the loop condition of line 308
\* stops a scan at max_pages, before this cap
PageCap == MaxPagesArg + 1

s_c1 == <<"c", "1">>

s_Fo == <<"F", "o">>

Props(pid, title) ==
    JDict(<<k_productIdentifier, k_title>>, <<JStr(pid), JStr(title)>>)

\* accepted: the title holds the query; one asset matches by its key
f_hit ==
    JDict(<<k_id, k_properties, k_assets>>,
          <<JStr(<<"i", "1">>),
            JDict(<<k_productIdentifier, k_title, k_start_datetime>>,
                  <<JStr(<<"p">>), JStr(<<"a", "f", "O">>), JStr(<<"d">>)>>),
            JDict(<<<<"f", "o">>, <<"z">>>>,
                  <<JDict(<<k_href>>, <<JStr(<<"h">>)>>),
                    JDict(<<k_href>>, <<JStr(<<"h">>)>>)>>)>>)

\* accepted: names its own collection, has no assets
f_own ==
    JDict(<<k_id, k_collection, k_properties>>,
          <<JNum(<<"2">>), JStr(<<"c", "9">>), Props(<<"F", "O">>, <<"t">>)>>)

\* does not hold the query
f_miss ==
    JDict(<<k_id, k_properties>>, <<JStr(<<"i", "3">>), Props(<<"p">>, <<"b">>)>>)

\* holds the query, has no title
f_notitle ==
    JDict(<<k_id, k_properties>>,
          <<JStr(<<"i", "4">>),
            JDict(<<k_productIdentifier, k_description>>,
                  <<JStr(<<"p">>), JStr(<<"f", "o">>)>>)>>)

\* accepted: the assets are a list
f_assets_list ==
    JDict(<<k_id, k_properties, k_assets>>,
          <<JStr(<<"i", "5">>), Props(<<"p">>, <<"f", "o">>),
            JList(<<JDict(<<k_href>>, <<JStr(<<"f", "o">>)>>)>>)>>)

\* holds the query, has no productIdentifier, the assets are a list
f_assets_list_nopid ==
    JDict(<<k_id, k_properties, k_assets>>,
          <<JStr(<<"i", "6">>), JDict(<<k_title>>, <<JStr(<<"f", "o">>)>>),
            JList(<<JStr(<<"f", "o">>)>>)>>)

\* holds the query, its properties are null
f_props_null ==
    JDict(<<k_id, k_title, k_properties>>,
          <<JStr(<<"i", "7">>), JStr(<<"f", "o">>), JNull>>)

\* accepted: its own collection is the empty string
f_own_empty ==
    JDict(<<k_id, k_collection, k_properties>>,
          <<JStr(<<"i", "8">>), JStr(<<>>), Props(<<"p">>, <<"f", "o">>)>>)

\* values of "features" in a page
FeaturesValues ==
    {JList(<<>>),
     JList(<<f_hit>>),
     JList(<<f_miss, JStr(<<"f", "o">>)>>),
     JList(<<f_hit, f_own>>),
     JList(<<f_assets_list>>),
     JList(<<f_notitle>>),
     JList(<<f_assets_list_nopid, f_hit>>),
     JList(<<f_props_null>>),
     JDict(<<<<"f", "o">>>>, <<f_hit>>)}

s_p2 == <<"p", "2">>

NextLink(href) == JDict(<<k_rel, k_href>>, <<JStr(s_next), href>>)

\* values of "links" in a page of collection cid; the first usable next link
\* of the third leads back to the listing URL
LinksValues(base, cid, limit) ==
    {JList(<<>>),
     JList(<<NextLink(JStr(s_p2))>>),
     JList(<<JDict(<<k_rel, k_href>>, <<JStr(<<"s", "e", "l", "f">>), JStr(s_p2)>>),
             JStr(s_next),
             NextLink(JNum(<<"5">>)),
             NextLink(JStr(listing_url(base, cid, limit))),
             NextLink(JStr(s_p2))>>),
     NextLink(JStr(s_p2)),
     JList(<<NextLink(JStr(<<"p", "3">>))>>)}

\* what a GET of an item page may answer
Responses(base, cid, limit) ==
    {[status |-> "ok", fc |-> JDict(<<k_features, k_links>>, <<f, l>>)] :
        f \in FeaturesValues, l \in LinksValues(base, cid, limit)}
    \cup {[status |-> "error", fc |-> JNull]}

InitScan ==
    /\ pc = "scan_call"
    /\ input = Idle
    /\ output = Idle
    /\ args \in [query : {s_Fo},
                 base : {DEFAULT_BASE},
                 limit_per_page : {DefaultLimitPerPage},
                 max_pages : (-1)..MaxPagesArg,
                 stop_on_first_hit : BOOLEAN]
    /\ server = Unset
    /\ collection_terms = Unset
    /\ all_collections = Unset
    /\ selected = Unset
    /\ collection_id = s_c1
    /\ next_url = Unset
    /\ page = 0
    /\ hits = 0
    /\ matches = Unset
    /\ exchanges = <<>>
    /\ RunIdle

\* faulty variant of ScanEnter: the page and hit counters are not reset but
\* carried over from the scan before
ScanEnterKeepsCounters ==
    /\ pc = "scan_call"
    /\ pc' = "loop"
    /\ next_url' = JStr(listing_url(args.base, collection_id, args.limit_per_page))
    /\ matches' = <<>>
    /\ UNCHANGED <<input, output, mainVars, collection_id, exchanges, page, hits,
                   runVars>>

\* _scan_collection_items, up to the loop
ScanEnter ==
    /\ pc = "scan_call"
    /\ pc' = "loop"
    /\ next_url' = JStr(listing_url(args.base, collection_id, args.limit_per_page))
    /\ page' = 0
    /\ hits' = 0
    /\ matches' = <<>>
    /\ UNCHANGED <<input, output, mainVars, collection_id, exchanges, runVars>>

\* one pass of the loop, the request of next_url being answered r: the
\* features of the page are scanned, and the scan breaks or moves to the next
\* link
FetchPage(r) ==
    LET got == scan_page(r.fc, args.base, collection_id, args.query)
    IN  /\ exchanges' = Append(exchanges, [cid |-> collection_id,
                                           url |-> next_url.s, response |-> r])
        /\ page' = page + 1
        /\ IF r.status # "ok" \/ got.raised
           THEN /\ pc' = "raised"
                /\ UNCHANGED <<hits, matches, next_url>>
           ELSE /\ hits' = hits + Len(got.page_matches)
                /\ matches' = matches \o got.page_matches
                /\ IF breaks_after_page(got.page_matches, args.stop_on_first_hit)
                   THEN pc' = "returned" /\ UNCHANGED next_url
                   ELSE pc' = "loop" /\ next_url' = _get_next_link(r.fc)
        /\ UNCHANGED <<input, output, mainVars, collection_id, runVars>>

\* one pass of the loop, whatever the API answers
ScanPage ==
    /\ pc = "loop"
    /\ loop_continues(next_url, page, args.max_pages)
    /\ page < PageCap
    /\ \E r \in Responses(args.base, collection_id, args.limit_per_page) :
          FetchPage(r)

\* the loop condition fails: return matches, hits
ScanReturn ==
    /\ pc = "loop"
    /\ ~loop_continues(next_url, page, args.max_pages)
    /\ pc' = "returned"
    /\ UNCHANGED <<input, output, mainVars, scanVars, runVars>>

NextScan == ScanEnter \/ ScanPage \/ ScanReturn

SpecScan == InitScan /\ [][NextScan]_vars

\* the scan runs on: the interpreter takes its next step and every request
\* is answered
SpecScanFair == SpecScan /\ WF_vars(NextScan)

---------------------------------------------------------------------------
(* What the exchanges of a scan say *)

\* the Match records the i-th fetched page gave (none when the request
\* failed or the scan of the page raised)
PageYield(i) ==
    IF exchanges[i].response.status # "ok" THEN <<>>
    ELSE scan_page(exchanges[i].response.fc, args.base, exchanges[i].cid,
                   args.query).page_matches

\* l is a link object of relation "next" with a string href
IsNextLink(l) ==
    /\ l.tag = "dict"
    /\ \E k \in DOMAIN l.keys : l.keys[k] = k_rel /\ l.items[k] = JStr(s_next)
    /\ \E k \in DOMAIN l.keys : l.keys[k] = k_href /\ l.items[k].tag = "str"

\* the links of a page, when they are a sequence
LinksOf(fc) ==
    IF \E k \in DOMAIN fc.keys : fc.keys[k] = k_links /\ fc.items[k].tag = "list"
    THEN (fc.items[CHOOSE k \in DOMAIN fc.keys : fc.keys[k] = k_links]).items
    ELSE <<>>

HasNextLink(fc) == \E n \in DOMAIN LinksOf(fc) : IsNextLink(LinksOf(fc)[n])

\* the href of the first next link of a page that has one
FirstNextLink(fc) ==
    LET links == LinksOf(fc)
        n == CHOOSE n \in DOMAIN links :
                 IsNextLink(links[n]) /\ \A m \in 1..(n - 1) : ~IsNextLink(links[m])
        l == links[n]
    IN  (l.items[CHOOSE k \in DOMAIN l.keys : l.keys[k] = k_href]).s

ListingUrl == listing_url(args.base, collection_id, args.limit_per_page)

---------------------------------------------------------------------------
(* C2 *)

\* C2: with stop_on_first_hit, once a fetched page has given a match no
\* further page of the collection is fetched, next link or not; when the
\* first page gives one match and has a next link the scan returns 1 hit
\* and the second page is never requested.
C2_StopOnFirstHit ==
    args.stop_on_first_hit =>
        /\ \A i \in 1..(Len(exchanges) - 1) : PageYield(i) = <<>>
        /\ (/\ pc = "returned"
            /\ Len(exchanges) >= 1
            /\ Len(PageYield(1)) = 1
            /\ HasNextLink(exchanges[1].response.fc))
           => (hits = 1 /\ Len(matches) = 1 /\ Len(exchanges) = 1)

\* the scan has returned after one page, which gave one match and named a
\* next page, with more pages allowed
C2_Witness ==
    /\ pc = "returned"
    /\ args.stop_on_first_hit
    /\ args.max_pages >= 2
    /\ Len(exchanges) = 1
    /\ HasNextLink(exchanges[1].response.fc)
    /\ hits = 1

---------------------------------------------------------------------------
(* C3 *)

\* C3: whatever the server answers, at most max_pages pages are fetched
\* (none when max_pages is 0 or less), every returned match comes from one
\* of the first max_pages pages of the chain, and with max_pages = 1 the
\* matches returned are those of page 1 alone although page 1 names a next
\* page.
C3_MaxPages ==
    /\ Len(exchanges) <= (IF args.max_pages > 0 THEN args.max_pages ELSE 0)
    /\ page = Len(exchanges)
    /\ pc = "returned" =>
          \A n \in DOMAIN matches :
              \E i \in DOMAIN exchanges :
                  /\ i <= args.max_pages
                  /\ \E k \in DOMAIN PageYield(i) : PageYield(i)[k] = matches[n]
    /\ (pc = "returned" /\ args.max_pages = 1 /\ Len(exchanges) = 1) =>
          (matches = PageYield(1) /\ hits = Len(PageYield(1)))

\* max_pages = 1: the scan has returned the two matches of page 1, which
\* names a next page that was not fetched
C3_Witness ==
    /\ pc = "returned"
    /\ args.max_pages = 1
    /\ ~args.stop_on_first_hit
    /\ Len(exchanges) = 1
    /\ HasNextLink(exchanges[1].response.fc)
    /\ hits = 2

---------------------------------------------------------------------------
(* C4 *)

\* the requests follow the next links: the first is the listing URL, each
\* later one the href of the first next link of the page before
FollowsNextLinks ==
    /\ Len(exchanges) >= 1 => exchanges[1].url = ListingUrl
    /\ \A i \in 2..Len(exchanges) :
          /\ exchanges[i - 1].response.status = "ok"
          /\ HasNextLink(exchanges[i - 1].response.fc)
          /\ exchanges[i].url = FirstNextLink(exchanges[i - 1].response.fc)

\* C4 as stated: the requests follow the next links, and no URL is fetched
\* more than once in a run, whatever next links the server returns.
C4_NeverRefetched ==
    /\ FollowsNextLinks
    /\ \A i, j \in DOMAIN exchanges : i # j => exchanges[i].url # exchanges[j].url

\* C4, amended: the requests of a run are exactly the chain that starts at
\* the listing URL and follows each page's first rel="next" link with a
\* string href; the scan keeps no record of the URLs it has fetched, so a
\* URL is fetched again exactly when a next link leads back to it, and the
\* run has at most max_pages requests.
C4_FollowsNextLinks ==
    /\ FollowsNextLinks
    /\ \A i, j \in DOMAIN exchanges :
          (i < j /\ exchanges[i].url = exchanges[j].url) =>
              FirstNextLink(exchanges[j - 1].response.fc) = exchanges[i].url
    /\ (pc = "loop" /\ exchanges # <<>>) =>
          next_url = (IF HasNextLink(exchanges[Len(exchanges)].response.fc)
                      THEN JStr(FirstNextLink(exchanges[Len(exchanges)].response.fc))
                      ELSE JNull)
    /\ Len(exchanges) <= (IF args.max_pages > 0 THEN args.max_pages ELSE 0)

\* the first page's usable next link, which follows a link without a string
\* href, led back to the listing URL, and the listing URL was fetched again
C4_Witness ==
    /\ Len(exchanges) = 2
    /\ exchanges[2].url = exchanges[1].url
    /\ exchanges[1].url = ListingUrl
    /\ Len(LinksOf(exchanges[1].response.fc)) > 1

---------------------------------------------------------------------------
(* C5 *)

\* the entries of a page's feature sequence that are objects holding q
ContainingFeatures(fc, q) ==
    LET fs == IF \E k \in DOMAIN fc.keys :
                     fc.keys[k] = k_features /\ fc.items[k].tag = "list"
              THEN (fc.items[CHOOSE k \in DOMAIN fc.keys : fc.keys[k] = k_features]).items
              ELSE <<>>
    IN  {n \in DOMAIN fs : fs[n].tag = "dict" /\ HasMatchingLeaf(fs[n], q)}

RECURSIVE ContainingCount(_)
\* the number of such entries over the first n fetched pages
ContainingCount(n) ==
    IF n = 0 THEN 0
    ELSE ContainingCount(n - 1)
         + Cardinality(ContainingFeatures(exchanges[n].response.fc, args.query))

\* C5: the hit count returned is the number of object entries, over the
\* feature sequences of all fetched pages, in which the string scan of the
\* whole feature finds the query; nothing more is asked of a feature.
C5_HitsCountContaining ==
    pc = "returned" => hits = ContainingCount(Len(exchanges))

---------------------------------------------------------------------------
(* C10 *)

\* the assets of feature f are no mapping: a sequence, another value, absent
AssetsNoMapping(f) ==
    \A k \in DOMAIN f.keys : f.keys[k] = k_assets => f.items[k].tag # "dict"

\* feature f is reported: a Match carries its id, with no matching asset
ReportedWithoutAssets(f) ==
    \E n \in DOMAIN matches :
        /\ matches[n].item_id = py_str(dict_get_default(f, k_id, JStr(<<>>)))
        /\ matches[n].matching_assets = <<>>

\* C10: an item whose assets are a sequence (or another non-mapping value,
\* or absent) gives no matching asset and no error, and the item is still
\* reported as a Match when it holds the query.
C10_AssetsSequenceStillMatch ==
    pc = "returned" =>
        \A i \in DOMAIN exchanges :
            LET fc == exchanges[i].response.fc
                fs == page_features(fc)
            IN  \A n \in ContainingFeatures(fc, args.query) :
                    AssetsNoMapping(fs[n]) => ReportedWithoutAssets(fs[n])

---------------------------------------------------------------------------
(* C11 *)

\* C11: a scan never raises because of a wrongly typed JSON field: whenever
\* the page request was answered with a page, whatever the types of
\* features, links, a link entry, a feature entry, properties or assets,
\* the scan goes on and does not raise.
C11_WrongTypeNeverRaises ==
    pc = "raised" => exchanges[Len(exchanges)].response.status # "ok"

---------------------------------------------------------------------------
(* C19 *)

\* the page fetched last names a next page
LastPageHasNext ==
    /\ exchanges # <<>>
    /\ exchanges[Len(exchanges)].response.status = "ok"
    /\ HasNextLink(exchanges[Len(exchanges)].response.fc)

\* C19: for every max_pages and every way the server answers the requests
\* (a next-link chain that goes on or cycles back included) the scan
\* eventually ends, by returning or by the exception of a failed request;
\* a scan that returns while its last page names a next page has been
\* stopped by max_pages or by the early stop.
C19_ScanEnds ==
    /\ <>(pc \in {"returned", "raised"})
    /\ [](pc = "returned" /\ LastPageHasNext =>
             \/ page >= args.max_pages
             \/ args.stop_on_first_hit /\ PageYield(Len(exchanges)) # <<>>)

\* the next links cycle (page 1 leads back to the listing URL, page 2 names
\* a next page again) and the scan has returned at max_pages = 2
C19_Witness ==
    /\ pc = "returned"
    /\ args.max_pages = 2
    /\ ~args.stop_on_first_hit
    /\ Len(exchanges) = 2
    /\ exchanges[2].url = exchanges[1].url
    /\ LastPageHasNext

---------------------------------------------------------------------------
(* The links of a Match: inputs *)

MaxIdLen == 3

IdChars == {"a", "/", "?", "#", "%", " ", "~"}

\* item ids
Ids == UNION {[1..n -> IdChars] : n \in 1..MaxIdLen}

\* values of a feature's "collection"; JStr(<<>>) also stands for the key
\* being absent, which feature.get("collection") or collection_id reads alike
OwnCollections ==
    {JStr(<<>>), JNull, JNum(<<"0">>), JNum(<<"7">>), JStr(<<"c", "/", "9">>),
     JStr(<<" ">>), JList(<<>>)}

\* a feature that holds the query "Fo" and has an id, productIdentifier, title
LinkFeature(id, own) ==
    JDict(<<k_id, k_collection, k_properties>>,
          <<JStr(id), own, Props(<<"p">>, <<"f", "o">>)>>)

InitLinks ==
    /\ pc = "call"
    /\ input \in [collection_id : {s_c1, <<"c", "?">>}, collection : OwnCollections,
                  id : Ids]
    /\ output = Idle
    /\ MainIdle
    /\ ScanIdle

\* the body of `for feature in features` for one feature of a page of
\* collection input.collection_id
CallScanFeature ==
    /\ pc = "call"
    /\ pc' = "done"
    /\ output' = [op |-> "scan_feature",
                  result |-> scan_feature(LinkFeature(input.id, input.collection),
                                          DEFAULT_BASE, input.collection_id,
                                          str_lower(s_Fo), compile_term_rx(s_Fo))]
    /\ UNCHANGED <<input, mainVars, scanVars, runVars>>

NextLinks == CallScanFeature

SpecLinks == InitLinks /\ [][NextLinks]_vars

---------------------------------------------------------------------------
(* C16 *)

\* characters that end or split a path segment of a link
SegmentBreakers == {"/", "?", "#", " "}

\* C16: the viewer URL is the viewer-link template with the collection and
\* the item id encoded, so that past the template's prefix the link holds
\* none of the characters that end or split a path segment, whatever the
\* ids are; the API URL is {base}/collections/{collection}/items/{itemId}
\* with the resolved collection.
C16_ViewerUrlEncoded ==
    (pc = "done" /\ output.result.kind = "match") =>
        LET m == output.result.match
        IN  /\ \A i \in (Len(ViewerPrefix) + 1)..Len(m.viewer_url) :
                   m.viewer_url[i] \notin SegmentBreakers
            /\ m.api_item_url =
                   DEFAULT_BASE \o <<"/">> \o k_collections \o <<"/">> \o m.collection
                   \o <<"/", "i", "t", "e", "m", "s", "/">> \o m.item_id

---------------------------------------------------------------------------
(* main: from the selection to the exit *)

\* a line of stdout: what it says, the text and the number it carries
Line(line, text, n) == [line |-> line, text |-> text, n |-> n]

\* _print_collection_list: f"{cid} | {title}" for every collection
collection_lines(collections) ==
    [i \in DOMAIN collections |->
        Line("collection",
             py_str(dict_get_default(collections[i], k_id, JStr(<<"-">>)))
             \o <<" ", "|", " ">>
             \o py_str(dict_get_default(collections[i], k_title, JStr(<<"-">>))),
             0)]

\* faulty variant of lists_only: an empty query does not stop main
lists_only_by_flag(list_flag, query) == list_flag

\* args.list_collections or not args.query
lists_only(list_flag, query) == IF list_flag THEN TRUE ELSE query = <<>>

\* faulty variant of MainNoSelection: without the early return main goes on
\* to the scan of no collection and to the export
MainNoSelectionFallsThrough ==
    /\ pc = "selected"
    /\ selected = <<>>
    /\ c_pos' = 1
    /\ total_hits' = 0
    /\ all_matches' = <<>>
    /\ pc' = "for"
    /\ UNCHANGED <<input, output, mainVars, scanVars, results_file, stdout,
                   exit_status>>

\* if not selected: print("No collections selected."); return 0
MainNoSelection ==
    /\ pc = "selected"
    /\ selected = <<>>
    /\ stdout' = Append(stdout, Line("No collections selected.", <<>>, 0))
    /\ exit_status' = 0
    /\ pc' = "exit"
    /\ UNCHANGED <<input, output, mainVars, scanVars, c_pos, total_hits,
                   all_matches, results_file>>

\* if args.list_collections or not args.query: the list is printed; return 0
MainListOnly ==
    /\ pc = "selected"
    /\ selected # <<>>
    /\ lists_only(args.list_collections, args.query)
    /\ stdout' = stdout
                 \o <<IF select_all(args.all_collections, collection_terms)
                      THEN Line("== All collections ==", <<>>, 0)
                      ELSE Line("== Collections matching ==", args.collections, 0)>>
                 \o collection_lines(selected)
                 \o (IF args.query = <<>> THEN <<Line("Tip", <<>>, 0)>> ELSE <<>>)
    /\ exit_status' = 0
    /\ pc' = "exit"
    /\ UNCHANGED <<input, output, mainVars, scanVars, c_pos, total_hits,
                   all_matches, results_file>>

\* total_hits = 0; all_matches = []; for c in selected
MainScanStart ==
    /\ pc = "selected"
    /\ selected # <<>>
    /\ ~lists_only(args.list_collections, args.query)
    /\ stdout' = Append(stdout, Line("== Now scanning items/assets for ==", args.query, 0))
    /\ c_pos' = 1
    /\ total_hits' = 0
    /\ all_matches' = <<>>
    /\ pc' = "for"
    /\ UNCHANGED <<input, output, mainVars, scanVars, results_file, exit_status>>

\* for c in selected: cid is empty: continue
MainForSkip ==
    /\ pc = "for"
    /\ c_pos <= Len(selected)
    /\ collection_cid(selected[c_pos]) = <<>>
    /\ c_pos' = c_pos + 1
    /\ UNCHANGED <<pc, input, output, mainVars, scanVars, total_hits, all_matches,
                   results_file, stdout, exit_status>>

\* for c in selected: _scan_collection_items(collection_id=cid, ...) is called
MainForScan ==
    /\ pc = "for"
    /\ c_pos <= Len(selected)
    /\ collection_cid(selected[c_pos]) # <<>>
    /\ collection_id' = collection_cid(selected[c_pos])
    /\ stdout' = Append(stdout, Line("COLLECTION", collection_cid(selected[c_pos]), 0))
    /\ pc' = "scan_call"
    /\ UNCHANGED <<input, output, mainVars, next_url, page, hits, matches, exchanges,
                   c_pos, total_hits, all_matches, results_file, exit_status>>

\* faulty variant of MainCollect: total_hits is set to the hits of the
\* collection, not raised by them
MainCollectLastHits ==
    /\ pc = "returned"
    /\ total_hits' = hits
    /\ all_matches' = all_matches \o matches
    /\ stdout' = stdout
                 \o [i \in DOMAIN matches |-> Line("MATCH", matches[i].item_id, 0)]
                 \o <<Line("Hits in collection", collection_id, hits)>>
    /\ c_pos' = c_pos + 1
    /\ pc' = "for"
    /\ UNCHANGED <<input, output, mainVars, scanVars, results_file, exit_status>>

\* faulty variant of MainCollect: the matches of a collection are put ahead
\* of those gathered before
MainCollectPrepends ==
    /\ pc = "returned"
    /\ total_hits' = total_hits + hits
    /\ all_matches' = matches \o all_matches
    /\ stdout' = stdout
                 \o [i \in DOMAIN matches |-> Line("MATCH", matches[i].item_id, 0)]
                 \o <<Line("Hits in collection", collection_id, hits)>>
    /\ c_pos' = c_pos + 1
    /\ pc' = "for"
    /\ UNCHANGED <<input, output, mainVars, scanVars, results_file, exit_status>>

\* collection_matches, hits = _scan_collection_items(...) has returned:
\* total_hits += hits; the matches are printed; all_matches.extend(...)
MainCollect ==
    /\ pc = "returned"
    /\ total_hits' = total_hits + hits
    /\ all_matches' = all_matches \o matches
    /\ stdout' = stdout
                 \o [i \in DOMAIN matches |-> Line("MATCH", matches[i].item_id, 0)]
                 \o <<Line("Hits in collection", collection_id, hits)>>
    /\ c_pos' = c_pos + 1
    /\ pc' = "for"
    /\ UNCHANGED <<input, output, mainVars, scanVars, results_file, exit_status>>

\* the metadata main writes with the matches in a JSON results file
results_metadata ==
    [base |-> args.base,
     query |-> args.query,
     format |-> args.format,
     filter_mode |-> IF select_all(args.all_collections, collection_terms)
                     THEN "all" ELSE "collections",
     limit_per_page |-> args.limit_per_page,
     max_pages |-> args.max_pages,
     stop_on_first_hit |-> args.stop_on_first_hit,
     collections |-> [i \in DOMAIN selected |->
                         py_str(dict_get_default(selected[i], k_id, JStr(<<>>)))],
     total_hits |-> total_hits]

\* the loop over selected has ended: the results file is written (JSON: the
\* metadata and the matches; CSV: the matches); return 0
MainExport ==
    /\ pc = "for"
    /\ c_pos > Len(selected)
    /\ results_file' = [format |-> args.format,
                        metadata |-> IF args.format = "json" THEN results_metadata
                                     ELSE Unset,
                        matches |-> all_matches]
    /\ stdout' = stdout
                 \o (IF total_hits = 0 THEN <<Line("No matches found.", <<>>, 0)>>
                     ELSE <<>>)
                 \o <<Line("Results written", <<>>, Len(all_matches))>>
    /\ exit_status' = 0
    /\ pc' = "exit"
    /\ UNCHANGED <<input, output, mainVars, scanVars, c_pos, total_hits, all_matches>>

\* faulty variant of MainUncaught: the exception is swallowed and main goes on
\* with the next collection
MainSkipsFailure ==
    /\ pc = "raised"
    /\ c_pos' = c_pos + 1
    /\ pc' = "for"
    /\ UNCHANGED <<input, output, mainVars, scanVars, total_hits, all_matches,
                   results_file, stdout, exit_status>>

\* an exception leaves main (raise_for_status of a request, re.error): the
\* interpreter prints the traceback and the process exits with status 1
MainUncaught ==
    /\ pc = "raised"
    /\ exit_status' = 1
    /\ pc' = "exit"
    /\ UNCHANGED <<input, output, mainVars, scanVars, c_pos, total_hits, all_matches,
                   results_file, stdout>>

---------------------------------------------------------------------------
(* Runs of main *)

c_x == JDict(<<k_id, k_title>>, <<JStr(<<"x">>), JStr(s_Biology)>>)

c_y == JDict(<<k_id, k_title>>, <<JStr(<<"y">>), JStr(s_Physics)>>)

\* no id: selected with all collections, never scanned
c_noid == JDict(<<k_title>>, <<JStr(s_Biology)>>)

\* the id is blank: its stripped id is empty
c_blank == JDict(<<k_id, k_title>>, <<JStr(<<" ">>), JStr(s_Biology)>>)

\* the id has blanks around it: scanned under the stripped id
c_padded == JDict(<<k_id, k_title>>, <<JStr(<<" ", "y", " ">>), JStr(s_Physics)>>)

\* the "collections" lists the API may answer
MainCatalogs ==
    {<<>>, <<c_x>>, <<c_x, c_y>>, <<c_noid, c_x, c_blank, c_padded>>}

\* values of --collections: none, one that matches the Biology collections,
\* one that matches no collection
MainCollectionsArgs == {<<>>, <<"b", "i", "o">>, <<"z", "z">>}

\* what a GET of an item page of collection cid may answer: two matches, one
\* of a feature that names its collection, and a next page; no match and a
\* next link back to the listing URL; one match, of a feature whose
\* collection is empty, and no next page; a failure status
MainResponses(base, cid, limit) ==
    {[status |-> "ok",
      fc |-> JDict(<<k_features, k_links>>,
                   <<JList(<<f_hit, f_own>>), JList(<<NextLink(JStr(s_p2))>>)>>)],
     [status |-> "ok",
      fc |-> JDict(<<k_features, k_links>>,
                   <<JList(<<f_miss>>),
                     JList(<<NextLink(JStr(listing_url(base, cid, limit)))>>)>>)],
     [status |-> "ok",
      fc |-> JDict(<<k_features, k_links>>, <<JList(<<f_own_empty>>), JList(<<>>)>>)],
     [status |-> "error", fc |-> JNull]}

\* the command lines of main
MainArgs ==
    [query : {<<>>, s_Fo},
     base : {DEFAULT_BASE},
     collections : MainCollectionsArgs,
     all_collections : BOOLEAN,
     list_collections : BOOLEAN,
     limit_per_page : {DefaultLimitPerPage},
     max_pages : 0..MaxPagesArg,
     stop_on_first_hit : BOOLEAN,
     format : {"json", "csv"}]

InitMain ==
    /\ pc = "start"
    /\ input = Idle
    /\ output = Idle
    /\ args \in MainArgs
    /\ \/ \E cat \in MainCatalogs :
             server = [status |-> "ok",
                       payload |-> JDict(<<k_collections>>, <<JList(cat)>>)]
       \/ server = [status |-> "error", payload |-> JNull]
    /\ collection_terms = Unset
    /\ all_collections = Unset
    /\ selected = Unset
    /\ collection_id = Unset
    /\ next_url = Unset
    /\ page = 0
    /\ hits = 0
    /\ matches = Unset
    /\ exchanges = <<>>
    /\ RunIdle

\* one pass of the loop of the scan main has called
MainScanPage ==
    /\ pc = "loop"
    /\ loop_continues(next_url, page, args.max_pages)
    /\ page < PageCap
    /\ \E r \in MainResponses(args.base, collection_id, args.limit_per_page) :
          FetchPage(r)

NextMain ==
    \/ ParseArgs
    \/ GetCollections
    \/ SelectCollections
    \/ MainNoSelection
    \/ MainListOnly
    \/ MainScanStart
    \/ MainForSkip
    \/ MainForScan
    \/ ScanEnter
    \/ MainScanPage
    \/ ScanReturn
    \/ MainCollect
    \/ MainExport
    \/ MainUncaught

SpecMain == InitMain /\ [][NextMain]_vars

---------------------------------------------------------------------------
(* C12 *)

\* the feature's own collection field, when it is a non-empty string
OwnCollection(f) ==
    IF \E k \in DOMAIN f.keys :
           f.keys[k] = k_collection /\ f.items[k].tag = "str" /\ f.items[k].s # <<>>
    THEN (f.items[CHOOSE k \in DOMAIN f.keys : f.keys[k] = k_collection]).s
    ELSE <<>>

\* the Match m, of a page of features fs of the collection scanned under
\* cid, carries a non-empty collection: that of the feature it reports when
\* the feature has one, else cid
ResolvedCollection(m, fs, cid) ==
    /\ m.collection # <<>>
    /\ \E n \in DOMAIN fs :
          /\ fs[n].tag = "dict"
          /\ m.item_id = py_str(dict_get_default(fs[n], k_id, JStr(<<>>)))
          /\ m.collection = (IF OwnCollection(fs[n]) # <<>>
                             THEN OwnCollection(fs[n])
                             ELSE cid)

\* the Match records the fetched pages gave
AllYielded ==
    UNION {LET yield == PageYield(i) IN {yield[k] : k \in DOMAIN yield} :
              i \in DOMAIN exchanges}

\* C12: every Match of a run of main (found by a scan, gathered by main,
\* written to the results file) has a non-empty collection: the feature's
\* own collection field when present and non-empty, otherwise the id of the
\* collection scanned, which is the non-empty stripped id of a selected
\* collection.
C12_MatchCollection ==
    /\ \A i \in DOMAIN exchanges :
          LET yield == PageYield(i)
              fs == page_features(exchanges[i].response.fc)
          IN  /\ exchanges[i].cid # <<>>
              /\ \E n \in DOMAIN selected :
                    exchanges[i].cid =
                        str_strip(py_str(dict_get_default(selected[n], k_id, JStr(<<>>))))
              /\ \A k \in DOMAIN yield :
                    ResolvedCollection(yield[k], fs, exchanges[i].cid)
    /\ LET yielded == AllYielded
       IN  /\ \A k \in DOMAIN matches : matches[k] \in yielded
           /\ \A k \in DOMAIN all_matches : all_matches[k] \in yielded
           /\ results_file # Unset =>
                 \A k \in DOMAIN results_file.matches :
                     results_file.matches[k] \in yielded

\* the results file holds a Match under the feature's own collection, one
\* under the stripped id of the collection scanned (the feature names no
\* collection) and one of a feature whose collection is the empty string
C12_Witness ==
    /\ pc = "exit"
    /\ results_file # Unset
    /\ \E k \in DOMAIN results_file.matches :
          results_file.matches[k].collection = <<"c", "9">>
    /\ \E k \in DOMAIN results_file.matches :
          /\ results_file.matches[k].collection = <<"y">>
          /\ results_file.matches[k].item_id = <<"i", "1">>
    /\ \E k \in DOMAIN results_file.matches :
          /\ results_file.matches[k].collection = <<"y">>
          /\ results_file.matches[k].item_id = <<"i", "8">>
    /\ \E n \in DOMAIN selected : selected[n] = c_padded

---------------------------------------------------------------------------
(* C13 *)

\* the item-page request made last was answered with a failure status
LastFetchFailed ==
    /\ exchanges # <<>>
    /\ exchanges[Len(exchanges)].response.status # "ok"

\* C13: a page fetch that fails is fatal and is not retried: no request
\* follows a failed one (neither of the failed URL nor of a later page or
\* collection), the scan does not return, and the run ends with a failure
\* status and without a results file, whatever matches earlier pages and
\* earlier collections gave.
C13_FetchFailureFatal ==
    /\ \A i \in 1..(Len(exchanges) - 1) : exchanges[i].response.status = "ok"
    /\ LastFetchFailed =>
          /\ pc \in {"raised", "exit"}
          /\ results_file = Unset
          /\ pc = "exit" => exit_status = 1
          /\ \A k \in DOMAIN all_matches :
                \E i \in 1..(Len(exchanges) - 1) :
                    /\ exchanges[i].cid # exchanges[Len(exchanges)].cid
                    /\ \E j \in DOMAIN PageYield(i) : PageYield(i)[j] = all_matches[k]

\* the second page of the second collection failed: the run has ended with
\* status 1 and no results file, with matches of the first collection
\* gathered and matches of the first page of the second collection found
C13_Witness ==
    /\ pc = "exit"
    /\ exit_status = 1
    /\ LastFetchFailed
    /\ results_file = Unset
    /\ Len(exchanges) >= 3
    /\ exchanges[Len(exchanges) - 1].cid = exchanges[Len(exchanges)].cid
    /\ exchanges[1].cid # exchanges[Len(exchanges)].cid
    /\ all_matches # <<>>
    /\ matches # <<>>

---------------------------------------------------------------------------
(* C14 *)

\* the collections were fetched and none was selected
NoneSelected ==
    /\ pc \notin {"start", "parsed", "listed", "raised"}
    /\ server.status = "ok"
    /\ selected = <<>>

\* C14: when no collection is selected (the catalog is empty, or no
\* collection matches a pattern) main prints "No collections selected." and
\* returns 0; no item page is fetched and no results file is written.
C14_NoSelection ==
    NoneSelected =>
        /\ pc \in {"selected", "exit"}
        /\ exchanges = <<>>
        /\ results_file = Unset
        /\ pc = "exit" =>
              /\ exit_status = 0
              /\ stdout = <<Line("No collections selected.", <<>>, 0)>>

\* a query is given and the catalog has collections, none of which matches
\* the pattern: main has returned 0
C14_Witness ==
    /\ pc = "exit"
    /\ NoneSelected
    /\ Len(all_collections) = 2
    /\ collection_terms = <<<<"z", "z">>>>
    /\ args.query = s_Fo
    /\ ~args.list_collections
    /\ exit_status = 0

---------------------------------------------------------------------------
(* C15 *)

\* --list-collections is given, or the query is omitted or empty
ListMode == args.list_collections \/ args.query = <<>>

\* line i + 1 of stdout tells the id and the title of the i-th selected
\* collection
ListsSelected ==
    /\ Len(stdout) >= 1 + Len(selected)
    /\ \A i \in DOMAIN selected :
          /\ stdout[i + 1].line = "collection"
          /\ stdout[i + 1].text =
                py_str(dict_get_default(selected[i], k_id, JStr(<<"-">>)))
                \o <<" ", "|", " ">>
                \o py_str(dict_get_default(selected[i], k_title, JStr(<<"-">>)))

\* C15: with --list-collections, or with the query omitted or empty, main
\* lists the selected collections (the --collections filters applied) and
\* returns 0; it fetches no item page and writes no results file, whatever
\* the other flags are.  (With nothing selected there is nothing to list:
\* C14.)
C15_ListOnly ==
    ListMode =>
        /\ exchanges = <<>>
        /\ results_file = Unset
        /\ pc \notin {"for", "scan_call", "loop", "returned"}
        /\ (pc = "exit" /\ server.status = "ok") =>
              /\ exit_status = 0
              /\ selected # <<>> => ListsSelected

\* --list-collections with a query, --stop-on-first-hit and a pattern: the
\* one collection the pattern matches, of the two fetched, has been listed
C15_Witness ==
    /\ pc = "exit"
    /\ args.list_collections
    /\ args.query = s_Fo
    /\ args.stop_on_first_hit
    /\ ~args.all_collections
    /\ collection_terms = <<<<"b", "i", "o">>>>
    /\ all_collections = <<c_x, c_y>>
    /\ selected = <<c_x>>
    /\ ListsSelected
    /\ exit_status = 0

---------------------------------------------------------------------------
(* C17 *)

\* the position in selected of the collection scanned under the id cid
SelectedPosition(cid) ==
    CHOOSE n \in DOMAIN selected :
        str_strip(py_str(dict_get_default(selected[n], k_id, JStr(<<>>)))) = cid

\* the i-th request is the first of its collection's scan
FirstOfScan(i) == i = 1 \/ exchanges[i - 1].cid # exchanges[i].cid

RECURSIVE YieldsUpTo(_)
\* the Match records of the first n fetched pages, in the order fetched and,
\* within a page, in the order of its features
YieldsUpTo(n) == IF n = 0 THEN <<>> ELSE YieldsUpTo(n - 1) \o PageYield(n)

\* C17: scanning is sequential.  The requests come collection by
\* collection in the order of selected (once a later collection is
\* requested no earlier one is requested again); the first request of a
\* collection is its listing URL and every later one is the next link read
\* from the response of the request before it; the matches gathered and
\* exported are those of the pages in the order fetched, each page's in the
\* order of its features.
C17_Sequential ==
    /\ \A i, j \in DOMAIN exchanges :
          i < j => SelectedPosition(exchanges[i].cid) <= SelectedPosition(exchanges[j].cid)
    /\ \A i \in DOMAIN exchanges :
          IF FirstOfScan(i)
          THEN exchanges[i].url =
                   listing_url(args.base, exchanges[i].cid, args.limit_per_page)
          ELSE /\ exchanges[i - 1].response.status = "ok"
               /\ HasNextLink(exchanges[i - 1].response.fc)
               /\ exchanges[i].url = FirstNextLink(exchanges[i - 1].response.fc)
    /\ pc = "for" => all_matches = YieldsUpTo(Len(exchanges))
    /\ results_file # Unset => results_file.matches = YieldsUpTo(Len(exchanges))

\* two pages of the first selected collection and one of the second were
\* fetched, each page gave matches, and the matches were exported
C17_Witness ==
    /\ pc = "exit"
    /\ results_file # Unset
    /\ Len(exchanges) = 3
    /\ exchanges[1].cid = exchanges[2].cid
    /\ exchanges[2].cid # exchanges[3].cid
    /\ \A i \in 1..3 : PageYield(i) # <<>>
    /\ PageYield(1) # PageYield(2)
    /\ Len(results_file.matches) >= 4

---------------------------------------------------------------------------
(* C18 *)

\* the requests made for the collection scanned under the id cid
RequestsOf(cid) == {i \in DOMAIN exchanges : exchanges[i].cid = cid}

FirstRequestOf(cid) == CHOOSE i \in RequestsOf(cid) : \A j \in RequestsOf(cid) : i <= j

LastRequestOf(cid) == CHOOSE i \in RequestsOf(cid) : \A j \in RequestsOf(cid) : j <= i

RECURSIVE HitsOf(_, _)
\* the matches the pages of cid among the first n requests gave, counted
HitsOf(cid, n) ==
    IF n = 0 THEN 0
    ELSE HitsOf(cid, n - 1)
         + (IF exchanges[n].cid = cid THEN Len(PageYield(n)) ELSE 0)

\* the scan of cid ended for a reason of its own: it fetched max_pages pages,
\* or its last page names no next page, or it stopped on that page's matches
EndedOnItsOwn(cid) ==
    \/ Cardinality(RequestsOf(cid)) = args.max_pages
    \/ /\ RequestsOf(cid) # {}
       /\ \/ ~HasNextLink(exchanges[LastRequestOf(cid)].response.fc)
          \/ args.stop_on_first_hit /\ PageYield(LastRequestOf(cid)) # <<>>

\* C18: the page ceiling and the early stop are per collection.  Every
\* collection scanned starts at its own listing URL and counts its own pages
\* and hits from 0: it is fetched at most max_pages pages, and its scan ends
\* only at max_pages pages of its own, at a page of its own without a next
\* link or at its own first page with matches, however the scans of the
\* collections before it ended.
C18_PerCollectionBounds ==
    \A n \in DOMAIN selected :
        LET cid == str_strip(py_str(dict_get_default(selected[n], k_id, JStr(<<>>))))
        IN  (cid # <<>> /\ c_pos >= 1) =>
                /\ Cardinality(RequestsOf(cid)) <= args.max_pages
                /\ RequestsOf(cid) # {} =>
                      exchanges[FirstRequestOf(cid)].url =
                          listing_url(args.base, cid, args.limit_per_page)
                /\ n < c_pos => EndedOnItsOwn(cid)
                /\ (n = c_pos /\ pc \in {"loop", "returned"}) =>
                      /\ page = Cardinality(RequestsOf(cid))
                      /\ hits = HitsOf(cid, Len(exchanges))

\* with --stop-on-first-hit and max_pages = 2 the first collection stopped
\* on the matches of its first page, which names a next page, and the second
\* collection was fetched two pages
C18_Witness ==
    /\ pc = "exit"
    /\ results_file # Unset
    /\ args.stop_on_first_hit
    /\ args.max_pages = 2
    /\ Len(exchanges) = 3
    /\ exchanges[1].cid # exchanges[2].cid
    /\ exchanges[2].cid = exchanges[3].cid
    /\ HasNextLink(exchanges[1].response.fc)
    /\ PageYield(1) # <<>>

---------------------------------------------------------------------------
(* The tutorial's item retrieval loop                                      *)
(* (src/C_Troubleshooting/handling_invalid_STAC.py, step 4)                *)

s_NoID == <<"N", "o", " ", "I", "D">>

k_end_datetime == <<"e", "n", "d", "_", "d", "a", "t", "e", "t", "i", "m", "e">>

\* type(value).__name__
type_name(value) ==
    IF value.tag = "null" THEN "NoneType"
    ELSE IF value.tag = "num" THEN "int"
    ELSE value.tag

\* if isinstance(item_dict.get("assets"), list): item_dict["assets"] = {}
fix_assets(item_dict) ==
    IF dict_get(item_dict, k_assets).tag = "list"
    THEN [item_dict EXCEPT
             !.items[CHOOSE k \in DOMAIN item_dict.keys : item_dict.keys[k] = k_assets] =
                 JDict(<<>>, <<>>)]
    ELSE item_dict

\* the except block raises itself: props = item_dict.get("properties", {})
\* is no dict and props.get("datetime") is an AttributeError
handler_raises(item_dict) ==
    dict_get_default(item_dict, k_properties, JDict(<<>>, <<>>)).tag # "dict"

\* the record the except block appends to invalid_items
invalid_record(collection_id_, item_dict) ==
    LET props == dict_get_default(item_dict, k_properties, JDict(<<>>, <<>>))
    IN  [collection |-> collection_id_,
         item_id |-> dict_get_default(item_dict, k_id, JStr(s_NoID)),
         assets_type |-> type_name(dict_get_default(item_dict, k_assets,
                                                    JDict(<<>>, <<>>))),
         datetime |-> dict_get(props, k_datetime),
         has_start |-> dict_has(props, k_start_datetime),
         has_end |-> dict_has(props, k_end_datetime)]

MaxItems == 2

d_valid ==
    JDict(<<k_id, k_properties, k_assets>>,
          <<JStr(<<"a">>), JDict(<<k_datetime>>, <<JStr(<<"d">>)>>), JDict(<<>>, <<>>)>>)

d_assets_list ==
    JDict(<<k_id, k_properties, k_assets>>,
          <<JStr(<<"b">>), JDict(<<k_start_datetime>>, <<JStr(<<"d">>)>>),
            JList(<<JStr(<<"h">>)>>)>>)

d_no_properties == JDict(<<k_assets>>, <<JList(<<>>)>>)

d_properties_null ==
    JDict(<<k_id, k_properties, k_assets>>,
          <<JStr(<<"c">>), JNull, JList(<<>>)>>)

d_properties_str ==
    JDict(<<k_id, k_properties>>, <<JStr(<<"e">>), JStr(<<"x">>)>>)

\* the item dictionaries a search may return
ItemDicts == {d_valid, d_assets_list, d_no_properties, d_properties_null, d_properties_str}

\* the items of one collection's search
SearchResults == UNION {[1..n -> ItemDicts] : n \in 0..MaxItems}

\* what Item.from_dict(item_dict) of pystac does with an item dictionary: it
\* returns an Item, or it raises
FromDictOutcomes == {"item", "raise"}

\* input.matching_collections[c] is the id of the c-th matching collection,
\* input.search[c] what client.search(collections=[id]).items_as_dicts()
\* yields for it; output is the lists built and the place of the loops
InitTutorial ==
    /\ pc = "tutorial_for"
    /\ \E n \in 1..2 :
          input \in [matching_collections : {[c \in 1..n |-> <<"m", DigitChars[c + 1]>>]},
                     search : [1..n -> SearchResults]]
    /\ output = [items |-> <<>>, invalid_items |-> <<>>, collection |-> 1, item |-> 1]
    /\ MainIdle
    /\ ScanIdle

\* one pass of `for item_dict in search.items_as_dicts()`
TutorialItem ==
    /\ pc = "tutorial_for"
    /\ output.collection <= Len(input.search)
    /\ output.item <= Len(input.search[output.collection])
    /\ \E outcome \in FromDictOutcomes :
          LET fixed == fix_assets(input.search[output.collection][output.item])
          IN  IF outcome = "item"
              THEN /\ output' = [output EXCEPT !.items = Append(@, fixed),
                                               !.item = @ + 1]
                   /\ pc' = pc
              ELSE IF handler_raises(fixed)
              THEN /\ pc' = "raised"
                   /\ output' = output
              ELSE /\ output' = [output EXCEPT
                                    !.invalid_items =
                                        Append(@, invalid_record(
                                            input.matching_collections[output.collection],
                                            fixed)),
                                    !.item = @ + 1]
                   /\ pc' = pc
    /\ UNCHANGED <<input, mainVars, scanVars, runVars>>

\* the items of a collection are exhausted: the next collection
TutorialNextCollection ==
    /\ pc = "tutorial_for"
    /\ output.collection <= Len(input.search)
    /\ output.item > Len(input.search[output.collection])
    /\ output' = [output EXCEPT !.collection = @ + 1, !.item = 1]
    /\ UNCHANGED <<pc, input, mainVars, scanVars, runVars>>

\* the collections are exhausted: the counts are printed
TutorialEnd ==
    /\ pc = "tutorial_for"
    /\ output.collection > Len(input.search)
    /\ pc' = "tutorial_done"
    /\ UNCHANGED <<input, output, mainVars, scanVars, runVars>>

NextTutorial == TutorialItem \/ TutorialNextCollection \/ TutorialEnd

SpecTutorial == InitTutorial /\ [][NextTutorial]_vars

---------------------------------------------------------------------------
(* C20 *)

RECURSIVE ItemsReturned(_)
\* the number of item dictionaries the searches of the first n collections
\* return
ItemsReturned(n) ==
    IF n = 0 THEN 0 ELSE ItemsReturned(n - 1) + Len(input.search[n])

\* C20: in the tutorial's item retrieval loop an invalid item never aborts
\* the loop, whatever its shape (properties null or no mapping included):
\* the loop comes to its end with every item dictionary in exactly one of
\* items and invalid_items, and no item kept has its assets as a list.
C20_InvalidItemNeverAborts ==
    /\ pc # "raised"
    /\ pc = "tutorial_done" =>
          Len(output.items) + Len(output.invalid_items)
              = ItemsReturned(Len(input.search))
    /\ \A i \in DOMAIN output.items :
          dict_get(output.items[i], k_assets).tag # "list"

---------------------------------------------------------------------------
(* C21 *)

RECURSIVE ReportedHits(_)
\* the hit counts main has reported for the collections scanned ("Hits in
\* collection ..."), summed over the first n lines of stdout
ReportedHits(n) ==
    IF n = 0 THEN 0
    ELSE ReportedHits(n - 1)
         + (IF stdout[n].line = "Hits in collection" THEN stdout[n].n ELSE 0)

\* C21: counts and records agree.  Whenever _scan_collection_items returns,
\* its hit count is the length of the match list it returns; whenever main
\* is between two collections, and at the export, total_hits is the number
\* of Match records gathered and the sum of the hit counts of the
\* collections scanned; the total_hits of the metadata written (JSON
\* format) is the number of Match records written.
C21_CountsAgree ==
    /\ pc = "returned" => hits = Len(matches)
    /\ pc = "for" =>
          /\ total_hits = Len(all_matches)
          /\ total_hits = ReportedHits(Len(stdout))
    /\ results_file # Unset =>
          /\ total_hits = Len(results_file.matches)
          /\ total_hits = ReportedHits(Len(stdout))
          /\ results_file.format = "json" =>
                results_file.metadata.total_hits = Len(results_file.matches)

\* a JSON results file was written after two collections were scanned, each
\* with hits, the first over two pages that both gave matches
C21_Witness ==
    /\ pc = "exit"
    /\ results_file # Unset
    /\ results_file.format = "json"
    /\ Len(exchanges) = 3
    /\ exchanges[1].cid = exchanges[2].cid
    /\ exchanges[2].cid # exchanges[3].cid
    /\ \A i \in 1..3 : PageYield(i) # <<>>
    /\ results_file.metadata.total_hits = 5

====
